---- MODULE Spec2Model ----
(***************************************************************************)
(* Model of the Benchmarker of benchmark/src/lib.rs: the table of          *)
(* persisted sequence numbers, a round of submit_requests,                 *)
(* wait_txns_committed and check_txn_results with its worker threads, the  *)
(* minting round, and the BenchSummary predicates.                         *)
(***************************************************************************)
EXTENDS Integers, Sequences, FiniteSets, TLC

\* ------------------------------------------------------------------ bounds
\* Sequence numbers range over 0..MaxSeq.
MaxSeq == 2
\* Requests generated for one round.
MaxReq == 2
\* self.clients.len(); Benchmarker::new panics on an empty vector.
NumClients == 2
\* The stagger range (ms) the Benchmarker is constructed with.
StaggerRange == 1
\* Wall-clock milliseconds a phase can take beyond the longest stagger delay.
MaxElapsed == 1
\* Rounds are started while the timedout_txns counter is below this cap.
MaxTimedOut == 2

\* ------------------------------------------------------------- vocabulary
\* association_address(): the address of the faucet account.
FaucetAddr == 0
\* self.clients.get(0): the first of the clients 1..NumClients.
FirstClient == 1
\* The caller's generated accounts: one, which with the faucet account
\* makes senders slices of up to two accounts.
GeneratedAddr == {1}
Addr == {FaucetAddr} \cup GeneratedAddr
SeqNum == 0..MaxSeq
\* Submission rates are opaque to this code: it only passes them on.
RateMax == "u64::MAX"
Rate == {"rate_cfg", "rate_override", RateMax}
NoneRate == "None"

VARIABLES
    stagger_range_ms,       \* Benchmarker.stagger_range_ms
    submit_rate,            \* Benchmarker.submit_rate
    prev_sequence_numbers,  \* Benchmarker.prev_sequence_numbers
    sequence_number,        \* AccountData.sequence_number of the caller's accounts
    pc,                     \* position of the orchestrating thread
    panic_site,             \* where the orchestrating thread panicked, if it did
    api,                    \* the entry point in progress
    requests,               \* the requests of the round: each its sender's address
    senders,                \* the senders slice of the round
    rate,                   \* the rate submit_requests was called with
    saved_stagger,          \* mint_accounts' local stagger_range_ms
    submit_children,        \* the threads spawned by submit_requests
    wait_children,          \* the threads spawned by wait_txns_committed
    submitted,              \* result of submit_requests: (accepted, duration)
    synced,                 \* result of wait_txns_committed: (map, duration)
    checked,                \* result of check_txn_results: (committed, uncommitted)
    summary,                \* the BenchSummary returned
    flags,                  \* results of has_rejected_txns / has_uncommitted_txns
    op_counter,             \* OP_COUNTER: committed_txns, timedout_txns
    inserted,               \* history: the addresses register/load inserted
    before,                 \* history: table and senders when check_txn_results began
    outstanding,            \* history: accounts a completed round left with local > synced
    rate_opt,               \* the submit_rate: Option<u64> the round was called with
    throughput,             \* what req_throughput / txn_throughput returned
    faucet_queries          \* history: the get_account_states calls of load_faucet_account

vars == <<stagger_range_ms, submit_rate, prev_sequence_numbers, sequence_number,
          pc, panic_site, api, requests, senders, rate, saved_stagger,
          submit_children, wait_children, submitted, synced, checked, summary,
          flags, op_counter, inserted, before, outstanding, rate_opt, throughput,
          faucet_queries>>

\* ---------------------------------------------------------------- helpers
Max(a, b) == IF a >= b THEN a ELSE b
Min(a, b) == IF a <= b THEN a ELSE b

Range(s) == {s[i] : i \in DOMAIN s}

RECURSIVE SetToSeq(_)
\* The elements of a set of addresses in ascending order.
SetToSeq(S) ==
    IF S = {} THEN <<>>
    ELSE LET m == CHOOSE x \in S : \A y \in S : x <= y
         IN <<m>> \o SetToSeq(S \ {m})

RECURSIVE Repeat(_, _)
Repeat(a, n) == IF n = 0 THEN <<>> ELSE <<a>> \o Repeat(a, n - 1)

RECURSIVE SumOver(_, _)
\* Sum of f[a] over the addresses of S.
SumOver(f, S) ==
    IF S = {} THEN 0
    ELSE LET a == CHOOSE x \in S : TRUE
         IN f[a] + SumOver(f, S \ {a})

EmptyMap == [a \in {} |-> 0]
NoSummary == [num_submitted |-> 0, num_accepted |-> 0, num_committed |-> 0,
              submit_duration_ms |-> 0, wait_duration_ms |-> 0]
NoBefore == [prev |-> EmptyMap, seq |-> EmptyMap]
NoSubmitted == [accepted |-> 0, delay |-> 0, joined |-> 0, raw |-> 0, duration |-> 0,
                panicked |-> FALSE]
NoSynced == [map |-> EmptyMap, joined |-> 0, duration |-> 0, panicked |-> FALSE]
NoChecked == [committed |-> 0, uncommitted |-> 0, panicked |-> FALSE, failed_at |-> -1]
NoFlags == [rejected |-> "none", uncommitted |-> "none"]
\* A throughput call that has not returned, and one that panicked.
NotCalled == [called |-> FALSE]
Panicked == [panicked |-> TRUE]
NoThroughput == [req |-> NotCalled, txn |-> NotCalled]

\* A map insertion that replaces the table by the new entries.
Extend_Replaces(m, n) == n

\* m with the entries of n inserted (HashMap::insert / extend).
Extend(m, n) ==
    [a \in DOMAIN m \cup DOMAIN n |-> IF a \in DOMAIN n THEN n[a] ELSE m[a]]

\* --------------------------------------------------------- divide_items
\* Size of chunk i (1-based) of n items over k chunks: contiguous chunks,
\* the remainder spread over the first chunks.
ChunkSize(n, k, i) == (n \div k) + (IF i <= n % k THEN 1 ELSE 0)

RECURSIVE ChunkStart(_, _, _)
ChunkStart(n, k, i) ==
    IF i = 1 THEN 1 ELSE ChunkStart(n, k, i - 1) + ChunkSize(n, k, i - 1)

\* divide_items(items, k): the sequence of k chunks.
divide_items(items, k) ==
    [i \in 1..k |->
        SubSeq(items, ChunkStart(Len(items), k, i),
               ChunkStart(Len(items), k, i) + ChunkSize(Len(items), k, i) - 1)]

\* ---------------------------------------------------- check_txn_results
\* The state the loop of check_txn_results carries from sender to sender.
CheckStart(prev, seq) ==
    [prev |-> prev, seq |-> seq, committed |-> 0, uncommitted |-> 0,
     panicked |-> FALSE, failed_at |-> -1]

\* An iteration that updates the table entry but leaves the sender's local
\* sequence number as it was.
CheckSender_KeepsLocal(st, a, sync) ==
    IF st.panicked THEN st
    ELSE IF a \notin DOMAIN st.prev THEN [st EXCEPT !.panicked = TRUE, !.failed_at = a]
    ELSE IF a \notin DOMAIN sync THEN [st EXCEPT !.panicked = TRUE, !.failed_at = a]
    ELSE IF ~(st.seq[a] >= sync[a]) THEN [st EXCEPT !.panicked = TRUE, !.failed_at = a]
    ELSE IF ~(sync[a] >= st.prev[a]) THEN [st EXCEPT !.panicked = TRUE, !.failed_at = a]
    ELSE [st EXCEPT !.committed = @ + (sync[a] - st.prev[a]),
                    !.uncommitted = @ + (st.seq[a] - sync[a]),
                    !.prev = [@ EXCEPT ![a] = sync[a]]]

\* An iteration that takes the two differences after the assignments, so
\* from the updated values.
CheckSender_SumsAfterUpdate(st, a, sync) ==
    IF st.panicked THEN st
    ELSE IF a \notin DOMAIN st.prev THEN [st EXCEPT !.panicked = TRUE, !.failed_at = a]
    ELSE IF a \notin DOMAIN sync THEN [st EXCEPT !.panicked = TRUE, !.failed_at = a]
    ELSE IF ~(st.seq[a] >= sync[a]) THEN [st EXCEPT !.panicked = TRUE, !.failed_at = a]
    ELSE IF ~(sync[a] >= st.prev[a]) THEN [st EXCEPT !.panicked = TRUE, !.failed_at = a]
    ELSE [st EXCEPT !.committed = @ + (sync[a] - sync[a]),
                    !.uncommitted = @ + (sync[a] - sync[a]),
                    !.prev = [@ EXCEPT ![a] = sync[a]],
                    !.seq = [@ EXCEPT ![a] = sync[a]]]

\* An iteration without assert!(sender.sequence_number >= sync_sequence_number).
CheckSender_NoLocalAssert(st, a, sync) ==
    IF st.panicked THEN st
    ELSE IF a \notin DOMAIN st.prev THEN [st EXCEPT !.panicked = TRUE, !.failed_at = a]
    ELSE IF a \notin DOMAIN sync THEN [st EXCEPT !.panicked = TRUE, !.failed_at = a]
    ELSE IF ~(sync[a] >= st.prev[a]) THEN [st EXCEPT !.panicked = TRUE, !.failed_at = a]
    ELSE [st EXCEPT !.committed = @ + (sync[a] - st.prev[a]),
                    !.uncommitted = @ + (st.seq[a] - sync[a]),
                    !.prev = [@ EXCEPT ![a] = sync[a]],
                    !.seq = [@ EXCEPT ![a] = sync[a]]]

\* An iteration without assert!(sync_sequence_number >= prev_sequence_number).
CheckSender_NoPrevAssert(st, a, sync) ==
    IF st.panicked THEN st
    ELSE IF a \notin DOMAIN st.prev THEN [st EXCEPT !.panicked = TRUE, !.failed_at = a]
    ELSE IF a \notin DOMAIN sync THEN [st EXCEPT !.panicked = TRUE, !.failed_at = a]
    ELSE IF ~(st.seq[a] >= sync[a]) THEN [st EXCEPT !.panicked = TRUE, !.failed_at = a]
    ELSE [st EXCEPT !.committed = @ + (sync[a] - st.prev[a]),
                    !.uncommitted = @ + (st.seq[a] - sync[a]),
                    !.prev = [@ EXCEPT ![a] = sync[a]],
                    !.seq = [@ EXCEPT ![a] = sync[a]]]

\* An iteration that resets the sender's local sequence number to the old
\* table entry instead of the synced value.
CheckSender_LocalToPrior(st, a, sync) ==
    IF st.panicked THEN st
    ELSE IF a \notin DOMAIN st.prev THEN [st EXCEPT !.panicked = TRUE, !.failed_at = a]
    ELSE IF a \notin DOMAIN sync THEN [st EXCEPT !.panicked = TRUE, !.failed_at = a]
    ELSE IF ~(st.seq[a] >= sync[a]) THEN [st EXCEPT !.panicked = TRUE, !.failed_at = a]
    ELSE IF ~(sync[a] >= st.prev[a]) THEN [st EXCEPT !.panicked = TRUE, !.failed_at = a]
    ELSE [st EXCEPT !.committed = @ + (sync[a] - st.prev[a]),
                    !.uncommitted = @ + (st.seq[a] - sync[a]),
                    !.prev = [@ EXCEPT ![a] = sync[a]],
                    !.seq = [@ EXCEPT ![a] = st.prev[a]]]

\* An iteration that counts the synced value itself as committed.
CheckSender_CountsAbsolute(st, a, sync) ==
    IF st.panicked THEN st
    ELSE IF a \notin DOMAIN st.prev THEN [st EXCEPT !.panicked = TRUE, !.failed_at = a]
    ELSE IF a \notin DOMAIN sync THEN [st EXCEPT !.panicked = TRUE, !.failed_at = a]
    ELSE IF ~(st.seq[a] >= sync[a]) THEN [st EXCEPT !.panicked = TRUE, !.failed_at = a]
    ELSE IF ~(sync[a] >= st.prev[a]) THEN [st EXCEPT !.panicked = TRUE, !.failed_at = a]
    ELSE [st EXCEPT !.committed = @ + (sync[a]),
                    !.uncommitted = @ + (st.seq[a] - sync[a]),
                    !.prev = [@ EXCEPT ![a] = sync[a]],
                    !.seq = [@ EXCEPT ![a] = sync[a]]]

\* An iteration that counts the committed requests but leaves the table
\* entry as it was.
CheckSender_KeepsPrior(st, a, sync) ==
    IF st.panicked THEN st
    ELSE IF a \notin DOMAIN st.prev THEN [st EXCEPT !.panicked = TRUE, !.failed_at = a]
    ELSE IF a \notin DOMAIN sync THEN [st EXCEPT !.panicked = TRUE, !.failed_at = a]
    ELSE IF ~(st.seq[a] >= sync[a]) THEN [st EXCEPT !.panicked = TRUE, !.failed_at = a]
    ELSE IF ~(sync[a] >= st.prev[a]) THEN [st EXCEPT !.panicked = TRUE, !.failed_at = a]
    ELSE [st EXCEPT !.committed = @ + (sync[a] - st.prev[a]),
                    !.uncommitted = @ + (st.seq[a] - sync[a]),
                    !.seq = [@ EXCEPT ![a] = sync[a]]]

\* One iteration of the loop, for the sender at address a: the two expect()
\* lookups, the two assert!s, then the sums and the two assignments. A
\* panic leaves the updates of the earlier iterations in place.
CheckSender(st, a, sync) ==
    IF st.panicked THEN st
    ELSE IF a \notin DOMAIN st.prev THEN [st EXCEPT !.panicked = TRUE, !.failed_at = a]
    ELSE IF a \notin DOMAIN sync THEN [st EXCEPT !.panicked = TRUE, !.failed_at = a]
    ELSE IF ~(st.seq[a] >= sync[a]) THEN [st EXCEPT !.panicked = TRUE, !.failed_at = a]
    ELSE IF ~(sync[a] >= st.prev[a]) THEN [st EXCEPT !.panicked = TRUE, !.failed_at = a]
    ELSE [st EXCEPT !.committed = @ + (sync[a] - st.prev[a]),
                    !.uncommitted = @ + (st.seq[a] - sync[a]),
                    !.prev = [@ EXCEPT ![a] = sync[a]],
                    !.seq = [@ EXCEPT ![a] = sync[a]]]

RECURSIVE CheckLoop(_, _, _, _)
\* for sender in senders.iter_mut(): senders i..Len(snd), in order.
CheckLoop(st, snd, i, sync) ==
    IF i > Len(snd) THEN st
    ELSE CheckLoop(CheckSender(st, snd[i], sync), snd, i + 1, sync)

\* check_txn_results(senders, sync_sequence_numbers) on the table prev and
\* the senders' sequence numbers seq.
check_txn_results(prev, seq, snd, sync) ==
    CheckLoop(CheckStart(prev, seq), snd, 1, sync)

\* ----------------------------------------------------------- BenchSummary
\* usize subtraction a - b > 0. When b > a the subtraction overflows: a
\* build with overflow checks panics, a build without them wraps to
\* 2^w - (b - a), which is > 0.
SubPositive(a, b) ==
    IF a >= b THEN {IF a - b > 0 THEN "true" ELSE "false"}
    ELSE {"panic", "true"}

\* The outcomes of BenchSummary::has_rejected_txns.
has_rejected_txns(s) == SubPositive(s.num_submitted, s.num_accepted)

\* A has_uncommitted_txns that never reports uncommitted requests.
has_uncommitted_never(s) == {"false"}

\* The outcomes of BenchSummary::has_uncommitted_txns.
has_uncommitted_txns(s) == SubPositive(s.num_accepted, s.num_committed)

\* The f64 quotient num / den, kept exact as the pair it is computed from.
Quotient(num, den) == [num |-> num, den |-> den]

\* BenchSummary::running_duration_ms
running_duration_ms(s) == s.submit_duration_ms + s.wait_duration_ms

\* A req_throughput without its assert!: a zero duration divides.
req_throughput_unchecked(s) == Quotient(s.num_accepted * 1000, s.submit_duration_ms)

\* BenchSummary::req_throughput: Panicked when the assert! fails.
req_throughput(s) ==
    IF ~(s.submit_duration_ms > 0) THEN Panicked
    ELSE Quotient(s.num_accepted * 1000, s.submit_duration_ms)

\* BenchSummary::txn_throughput: Panicked when the assert! fails.
txn_throughput(s) ==
    IF ~(s.submit_duration_ms > 0 \/ s.wait_duration_ms > 0) THEN Panicked
    ELSE Quotient(s.num_committed * 1000, running_duration_ms(s))

\* rng.gen_range(0, max(1, stagger_range_ms)): the delays stagger_client can draw.
stagger_client(range_ms) == 0..(Max(1, range_ms) - 1)

\* ------------------------------------------------------------------ Init
\* Benchmarker::new: an empty table; the caller's generated accounts start
\* at sequence number 0, the faucet account is not loaded yet.
Init ==
    /\ stagger_range_ms = StaggerRange
    /\ submit_rate = "rate_cfg"
    /\ prev_sequence_numbers = EmptyMap
    /\ sequence_number = [a \in GeneratedAddr |-> 0]
    /\ pc = "idle"
    /\ panic_site = "none"
    /\ api = "none"
    /\ requests = <<>>
    /\ senders = <<>>
    /\ rate = NoneRate
    /\ saved_stagger = 0
    /\ submit_children = <<>>
    /\ wait_children = <<>>
    /\ submitted = NoSubmitted
    /\ synced = NoSynced
    /\ checked = NoChecked
    /\ summary = NoSummary
    /\ flags = NoFlags
    /\ op_counter = [committed_txns |-> 0, timedout_txns |-> 0]
    /\ inserted = {}
    /\ before = NoBefore
    /\ outstanding = EmptyMap
    /\ rate_opt = NoneRate
    /\ throughput = NoThroughput
    /\ faucet_queries = <<>>

round_vars == <<api, requests, senders, rate, saved_stagger, submit_children,
                wait_children, submitted, synced, checked, summary, flags, before,
                rate_opt, throughput>>

\* The orchestrating thread panics at site.
Panic(site) == pc' = "panicked" /\ panic_site' = site

\* ------------------------------------------------------ AccountStateTracker
\* register_accounts(accounts): insert every account's sequence number.
RegisterAccounts(S) ==
    /\ pc = "idle"
    /\ S # {} /\ S \subseteq DOMAIN sequence_number
    /\ prev_sequence_numbers' =
           Extend(prev_sequence_numbers, [a \in S |-> sequence_number[a]])
    /\ inserted' = inserted \cup S
    /\ outstanding' = [a \in DOMAIN outstanding \ S |-> outstanding[a]]
    /\ UNCHANGED <<stagger_range_ms, submit_rate, sequence_number, pc, panic_site,
                   op_counter, faucet_queries, round_vars>>

\* What get_account_states can answer for the faucet address: no entry, or
\* a sequence number with an account status.
FaucetStates ==
    {[found |-> FALSE, sequence_number |-> 0, status |-> "Unknown"]} \cup
    [found : {TRUE}, sequence_number : SeqNum, status : {"Persisted", "Local"}]

\* A load_faucet_account that inserts what it was answered before it
\* checks the status.
LoadFaucetAccount_InsertsFirst(resp) ==
    /\ pc = "idle"
    /\ FaucetAddr \notin DOMAIN sequence_number
    /\ faucet_queries' = Append(faucet_queries, [client |-> FirstClient, states |-> resp])
    /\ prev_sequence_numbers' =
           Extend(prev_sequence_numbers, [a \in {FaucetAddr} |-> resp.sequence_number])
    /\ IF resp.found /\ resp.status = "Persisted"
       THEN /\ sequence_number' =
                   Extend(sequence_number, [a \in {FaucetAddr} |-> resp.sequence_number])
            /\ inserted' = inserted \cup {FaucetAddr}
            /\ UNCHANGED <<pc, panic_site>>
       ELSE /\ Panic("load_faucet_account")
            /\ UNCHANGED <<sequence_number, inserted>>
    /\ UNCHANGED <<stagger_range_ms, submit_rate, op_counter, outstanding, round_vars>>

\* load_faucet_account: query clients[0]; expect an entry, assert it is
\* Persisted, insert its sequence number and return the AccountData.
LoadFaucetAccount(resp) ==
    /\ pc = "idle"
    /\ FaucetAddr \notin DOMAIN sequence_number
    /\ faucet_queries' = Append(faucet_queries, [client |-> FirstClient, states |-> resp])
    /\ IF resp.found /\ resp.status = "Persisted"
       THEN /\ prev_sequence_numbers' =
                   Extend(prev_sequence_numbers,
                          [a \in {FaucetAddr} |-> resp.sequence_number])
            /\ sequence_number' =
                   Extend(sequence_number, [a \in {FaucetAddr} |-> resp.sequence_number])
            /\ inserted' = inserted \cup {FaucetAddr}
            /\ UNCHANGED <<pc, panic_site>>
       ELSE /\ Panic("load_faucet_account")
            /\ UNCHANGED <<prev_sequence_numbers, sequence_number, inserted>>
    /\ UNCHANGED <<stagger_range_ms, submit_rate, op_counter, outstanding, round_vars>>

\* ------------------------------------------------------------ the caller
\* The requests cnt asks for, grouped by sender in address order.
RECURSIVE RequestsOf(_, _)
RequestsOf(cnt, accts) ==
    IF accts = <<>> THEN <<>>
    ELSE Repeat(Head(accts), cnt[Head(accts)]) \o RequestsOf(cnt, Tail(accts))

\* The load generator creates cnt[a] requests for sender a and bumps the
\* sender's sequence number by one for each.
GenerateRequests(cnt) ==
    /\ DOMAIN cnt = DOMAIN sequence_number
    /\ SumOver(cnt, DOMAIN cnt) <= MaxReq
    /\ \A a \in DOMAIN cnt : sequence_number[a] + cnt[a] <= MaxSeq
    /\ requests' = RequestsOf(cnt, SetToSeq(DOMAIN cnt))
    /\ sequence_number' = [a \in DOMAIN cnt |-> sequence_number[a] + cnt[a]]

\* --------------------------------------------------------- submit_requests
\* A spawn that hands every thread the whole request list.
SpawnSubmit_WholeList(reqs, range_ms, r) ==
    [i \in 1..NumClients |->
        [state |-> "running", chunk |-> reqs,
         client |-> ((i - 1) % NumClients) + 1, stagger |-> range_ms, rate |-> r,
         accepted |-> 0, delay |-> 0]]

\* The threads submit_requests spawns: chunk i of the requests with client
\* i modulo the number of clients, the stagger range and the rate.
SpawnSubmit(reqs, range_ms, r) ==
    [i \in 1..NumClients |->
        [state |-> "running", chunk |-> divide_items(reqs, NumClients)[i],
         client |-> ((i - 1) % NumClients) + 1, stagger |-> range_ms, rate |-> r,
         accepted |-> 0, delay |-> 0]]

\* The ways a submit thread can end: it returns the n responses the service
\* accepted of its chunk and its delay d, or it terminates abnormally.
SubmitResults(child) ==
    {[child EXCEPT !.state = "done", !.accepted = n, !.delay = d] :
        d \in stagger_client(child.stagger), n \in 0..Len(child.chunk)}
    \cup {[child EXCEPT !.state = "panicked"]}

\* A join that takes a panicked thread for one that accepted nothing.
JoinSubmitChild_IgnoresPanic(acc, child) ==
    [acc EXCEPT !.accepted = @ + child.accepted,
                !.delay = Min(@, child.delay),
                !.joined = @ + 1]

\* child.join().expect(..) in submit_requests: panic if the thread panicked,
\* else gather its responses and take the minimum delay.
JoinSubmitChild(acc, child) ==
    IF child.state = "panicked" THEN [acc EXCEPT !.panicked = TRUE]
    ELSE [acc EXCEPT !.accepted = @ + child.accepted,
                     !.delay = Min(@, child.delay),
                     !.joined = @ + 1]

RECURSIVE JoinSubmitAll(_, _, _)
\* for child in children: the joins of children i.., in order.
JoinSubmitAll(acc, children, i) ==
    IF acc.panicked \/ i > Len(children) THEN acc
    ELSE JoinSubmitAll(JoinSubmitChild(acc, children[i]), children, i + 1)

RECURSIVE MaxDelay(_, _)
\* The longest delay of the children 1..i: no join returns before it.
MaxDelay(children, i) ==
    IF i = 0 THEN 0 ELSE Max(children[i].delay, MaxDelay(children, i - 1))

\* A duration that is the raw elapsed time, the delay not subtracted.
RequestDuration_Raw(raw, delay, range_ms) == raw

\* The duration submit_requests reports for raw elapsed ms.
RequestDuration(raw, delay, range_ms) ==
    IF delay < range_ms THEN raw - delay ELSE raw

RECURSIVE SubmitEnded(_, _)
\* The ways the submit threads i..Len(children) can all end.
SubmitEnded(children, i) ==
    IF i > Len(children) THEN {<<>>}
    ELSE {<<r>> \o rest : r \in SubmitResults(children[i]),
                         rest \in SubmitEnded(children, i + 1)}

\* An unwrap_or that takes the configured rate whatever the option holds.
UnwrapRate_IgnoresOverride(opt, cfg) == cfg

\* submit_rate.unwrap_or(self.submit_rate)
UnwrapRate(opt, cfg) == IF opt = NoneRate THEN cfg ELSE opt

\* submit_requests(requests, r) from spawn to return, the threads ending
\* as done says and the last join returning e ms after the longest delay.
SubmitRequests(reqs, r, range_ms, done, e) ==
    /\ DOMAIN done = 1..NumClients
    /\ \A i \in 1..NumClients :
           done[i] \in SubmitResults(SpawnSubmit(reqs, range_ms, r)[i])
    /\ e \in 0..MaxElapsed
    /\ LET acc == JoinSubmitAll([NoSubmitted EXCEPT !.delay = range_ms], done, 1) IN
       IF acc.panicked
       THEN /\ submitted' = [NoSubmitted EXCEPT !.panicked = TRUE]
            /\ Panic("join_submit")
       ELSE /\ submitted' = [accepted |-> acc.accepted, delay |-> 0, joined |-> 0,
                             raw |-> MaxDelay(done, Len(done)) + e,
                             duration |-> RequestDuration(MaxDelay(done, Len(done)) + e,
                                                          acc.delay, range_ms),
                             panicked |-> FALSE]
            /\ pc' = "submitted"
            /\ UNCHANGED panic_site
    /\ UNCHANGED <<submit_children, wait_children>>

\* The caller has the requests cnt generated and calls
\* submit_requests_and_wait_txns_committed(requests, senders, opt), itself
\* or through measure_txn_throughput; the call runs submit_requests.
RoundSubmit(cnt, S, opt, done, e) ==
    /\ pc = "idle"
    /\ op_counter.timedout_txns < MaxTimedOut
    /\ GenerateRequests(cnt)
    /\ S \subseteq DOMAIN sequence_number
    /\ api' = "round"
    /\ senders' = SetToSeq(S)
    /\ rate_opt' = opt
    /\ rate' = UnwrapRate(opt, submit_rate)
    /\ SubmitRequests(requests', rate', stagger_range_ms, done, e)
    /\ UNCHANGED <<stagger_range_ms, submit_rate, prev_sequence_numbers,
                   saved_stagger, synced, checked, summary, flags,
                   op_counter, inserted, before, outstanding, throughput,
                   faucet_queries>>

\* The caller has n mint requests generated for the faucet account and
\* calls mint_accounts(mint_requests, faucet_account): staggering disabled,
\* the faucet account the only sender, the requests flooded.
MintSubmit(n, done, e) ==
    /\ pc = "idle"
    /\ op_counter.timedout_txns < MaxTimedOut
    /\ FaucetAddr \in DOMAIN sequence_number
    /\ GenerateRequests([a \in DOMAIN sequence_number |->
                            IF a = FaucetAddr THEN n ELSE 0])
    /\ api' = "mint"
    /\ saved_stagger' = stagger_range_ms
    /\ stagger_range_ms' = 1
    /\ senders' = <<FaucetAddr>>
    /\ rate_opt' = RateMax
    /\ rate' = UnwrapRate(rate_opt', submit_rate)
    /\ SubmitRequests(requests', rate', stagger_range_ms', done, e)
    /\ UNCHANGED <<submit_rate, prev_sequence_numbers, synced, checked, summary,
                   flags, op_counter, inserted, before, outstanding, throughput,
                   faucet_queries>>

\* --------------------------------------------------- wait_txns_committed
\* The threads wait_txns_committed spawns: chunk i of the senders as
\* (address, sequence number) pairs.
SpawnWait(snd, seq) ==
    [i \in 1..NumClients |->
        [state |-> "running",
         chunk |-> [j \in DOMAIN divide_items(snd, NumClients)[i] |->
                       <<divide_items(snd, NumClients)[i][j],
                         seq[divide_items(snd, NumClients)[i][j]]>>],
         client |-> ((i - 1) % NumClients) + 1, result |-> EmptyMap]]

\* The ways a wait thread can end: it returns the map
\* sync_account_sequence_number answered for the accounts of its chunk, or
\* it terminates abnormally.
WaitResults(child) ==
    {[child EXCEPT !.state = "done", !.result = m] :
        m \in [{p[1] : p \in Range(child.chunk)} -> SeqNum]}
    \cup {[child EXCEPT !.state = "panicked"]}

RECURSIVE WaitEnded(_, _)
\* The ways the wait threads i..Len(children) can all end.
WaitEnded(children, i) ==
    IF i > Len(children) THEN {<<>>}
    ELSE {<<r>> \o rest : r \in WaitResults(children[i]),
                         rest \in WaitEnded(children, i + 1)}

\* child.join().expect(..) in wait_txns_committed, then extend the map.
JoinWaitChild(acc, child) ==
    IF child.state = "panicked" THEN [acc EXCEPT !.panicked = TRUE]
    ELSE [acc EXCEPT !.map = Extend(@, child.result), !.joined = @ + 1]

RECURSIVE JoinWaitAll(_, _, _)
JoinWaitAll(acc, children, i) ==
    IF acc.panicked \/ i > Len(children) THEN acc
    ELSE JoinWaitAll(JoinWaitChild(acc, children[i]), children, i + 1)

\* wait_txns_committed(senders) from spawn to return, the threads ending as
\* done says and the last join returning after e ms. The rate, a local of
\* the round that only submit_requests reads, is dead by now.
WaitTxnsCommitted(done, e) ==
    /\ pc = "submitted"
    /\ DOMAIN done = 1..NumClients
    /\ \A i \in 1..NumClients :
           done[i] \in WaitResults(SpawnWait(senders, sequence_number)[i])
    /\ e \in 0..MaxElapsed
    /\ LET acc == JoinWaitAll(NoSynced, done, 1) IN
       IF acc.panicked
       THEN /\ synced' = [NoSynced EXCEPT !.panicked = TRUE]
            /\ Panic("join_wait")
       ELSE /\ synced' = [map |-> acc.map, joined |-> 0, duration |-> e,
                          panicked |-> FALSE]
            /\ pc' = "check"
            /\ UNCHANGED panic_site
    /\ rate' = NoneRate
    /\ rate_opt' = NoneRate
    /\ UNCHANGED <<stagger_range_ms, submit_rate, prev_sequence_numbers, sequence_number,
                   api, requests, senders, saved_stagger, submit_children,
                   wait_children, submitted, checked, summary, flags, op_counter,
                   inserted, before, outstanding, throughput, faucet_queries>>

\* ------------------------------------------------------ the round's end
\* The accounts a completed check_txn_results left with uncommitted
\* requests: for each, the value it was reset to and the value it had.
Outstanding(old, snd, seq, sync) ==
    LET S == Range(snd)
        left == {a \in S : seq[a] > sync[a]}
    IN [a \in (DOMAIN old \ S) \cup left |->
           IF a \in left THEN [reset |-> sync[a], high |-> seq[a]] ELSE old[a]]

\* check_txn_results(senders, &sync_sequence_numbers) and the two counters.
CheckTxnResults ==
    /\ pc = "check"
    /\ LET r == check_txn_results(prev_sequence_numbers, sequence_number,
                                  senders, synced.map) IN
       /\ before' = [prev |-> prev_sequence_numbers, seq |-> sequence_number]
       /\ prev_sequence_numbers' = r.prev
       /\ sequence_number' = r.seq
       /\ IF r.panicked
          THEN /\ checked' = [NoChecked EXCEPT !.panicked = TRUE,
                                               !.failed_at = r.failed_at]
               /\ Panic("check_txn_results")
               /\ UNCHANGED <<op_counter, outstanding>>
          ELSE /\ checked' = [committed |-> r.committed, uncommitted |-> r.uncommitted,
                              panicked |-> FALSE, failed_at |-> -1]
               /\ op_counter' =
                      [committed_txns |-> op_counter.committed_txns + r.committed,
                       timedout_txns |-> op_counter.timedout_txns + r.uncommitted]
               /\ outstanding' =
                      Outstanding(outstanding, senders, sequence_number, synced.map)
               /\ pc' = "checked"
               /\ UNCHANGED panic_site
    /\ UNCHANGED <<stagger_range_ms, submit_rate, api, requests, senders, rate,
                   saved_stagger, submit_children, wait_children, submitted, synced,
                   summary, flags, inserted, rate_opt, throughput, faucet_queries>>

\* The BenchSummary submit_requests_and_wait_txns_committed assembles.
MakeSummary(reqs, sub, syn, chk) ==
    [num_submitted |-> Len(reqs), num_accepted |-> sub.accepted,
     num_committed |-> chk.committed, submit_duration_ms |-> sub.duration,
     wait_duration_ms |-> syn.duration]

finish_frame == <<submit_rate, prev_sequence_numbers, sequence_number, api, requests,
                  senders, rate, saved_stagger, submit_children, wait_children,
                  submitted, synced, checked, op_counter, inserted, before,
                  outstanding, rate_opt, throughput, faucet_queries>>

\* submit_requests_and_wait_txns_committed returns the summary.
RoundReturn ==
    /\ pc = "checked"
    /\ api = "round"
    /\ summary' = MakeSummary(requests, submitted, synced, checked)
    /\ pc' = "returned"
    /\ UNCHANGED <<stagger_range_ms, panic_site, flags>>
    /\ UNCHANGED finish_frame

\* A mint_accounts that leaves the stagger range at 1 after its round.
MintFinish_KeepsStagger(rej, unc) ==
    /\ pc = "checked"
    /\ api = "mint"
    /\ summary' = MakeSummary(requests, submitted, synced, checked)
    /\ stagger_range_ms' = stagger_range_ms
    /\ rej \in has_rejected_txns(summary')
    /\ unc \in has_uncommitted_txns(summary')
    /\ flags' = [rejected |-> rej,
                 uncommitted |-> IF rej = "false" THEN unc ELSE "none"]
    /\ IF rej = "false" /\ unc = "false"
       THEN pc' = "returned" /\ UNCHANGED panic_site
       ELSE Panic("mint_accounts")
    /\ UNCHANGED finish_frame

\* mint_accounts after its round: restore the stagger range, then panic if
\* has_rejected_txns() || has_uncommitted_txns().
MintFinish(rej, unc) ==
    /\ pc = "checked"
    /\ api = "mint"
    /\ summary' = MakeSummary(requests, submitted, synced, checked)
    /\ stagger_range_ms' = saved_stagger
    /\ rej \in has_rejected_txns(summary')
    /\ unc \in has_uncommitted_txns(summary')
    /\ flags' = [rejected |-> rej,
                 uncommitted |-> IF rej = "false" THEN unc ELSE "none"]
    /\ IF rej = "false" /\ unc = "false"
       THEN pc' = "returned" /\ UNCHANGED panic_site
       ELSE Panic("mint_accounts")
    /\ UNCHANGED finish_frame

\* The round was the one measure_txn_throughput runs: it goes on to set the
\* gauges; req_throughput and txn_throughput assert their durations before
\* dividing.
MeasureFinish ==
    /\ pc = "returned"
    /\ api = "round"
    /\ api' = "measure"
    /\ IF req_throughput(summary) = Panicked
       THEN /\ Panic("req_throughput")
            /\ UNCHANGED throughput
       ELSE IF txn_throughput(summary) = Panicked
       THEN /\ Panic("txn_throughput")
            /\ throughput' = [throughput EXCEPT !.req = req_throughput(summary)]
       ELSE /\ throughput' = [req |-> req_throughput(summary),
                              txn |-> txn_throughput(summary)]
            /\ UNCHANGED <<pc, panic_site>>
    /\ UNCHANGED <<stagger_range_ms, submit_rate, prev_sequence_numbers, sequence_number,
                   requests, senders, rate, saved_stagger, submit_children,
                   wait_children, submitted, synced, checked, summary, flags,
                   op_counter, inserted, before, outstanding, rate_opt,
                   faucet_queries>>

\* The caller is done with the round.
NextRound ==
    /\ pc = "returned"
    /\ pc' = "idle"
    /\ api' = "none"
    /\ requests' = <<>>
    /\ senders' = <<>>
    /\ rate' = NoneRate
    /\ saved_stagger' = 0
    /\ submitted' = NoSubmitted
    /\ synced' = NoSynced
    /\ checked' = NoChecked
    /\ summary' = NoSummary
    /\ flags' = NoFlags
    /\ before' = NoBefore
    /\ rate_opt' = NoneRate
    /\ throughput' = NoThroughput
    /\ UNCHANGED <<stagger_range_ms, submit_rate, prev_sequence_numbers, sequence_number,
                   panic_site, submit_children, wait_children, op_counter, inserted,
                   outstanding, faucet_queries>>

\* ------------------------------------------------------------------- Next
\* The request counts a caller can ask the load generator for.
Counts == {cnt \in [DOMAIN sequence_number -> 0..MaxReq] :
              SumOver(cnt, DOMAIN cnt) <= MaxReq}

\* A round, with any requests, senders and rate override, up to the return
\* of submit_requests.
Round ==
    /\ pc = "idle"
    /\ \E cnt \in Counts, S \in SUBSET Addr, opt \in {NoneRate, "rate_override"} :
       \E done \in SubmitEnded(SpawnSubmit(RequestsOf(cnt, SetToSeq(DOMAIN cnt)),
                                           stagger_range_ms,
                                           UnwrapRate(opt, submit_rate)), 1) :
          RoundSubmit(cnt, S, opt, done, MaxElapsed)

\* A minting round, with any number of mint requests, up to the return of
\* submit_requests.
Mint ==
    /\ pc = "idle"
    /\ \E n \in 0..MaxReq :
       \E done \in SubmitEnded(SpawnSubmit(Repeat(FaucetAddr, n), 1, RateMax), 1) :
          MintSubmit(n, done, MaxElapsed)

\* wait_txns_committed, with any answers of the service.
Wait ==
    /\ pc = "submitted"
    /\ \E done \in WaitEnded(SpawnWait(senders, sequence_number), 1) :
          WaitTxnsCommitted(done, MaxElapsed)

Next ==
    \/ \E a \in Addr : RegisterAccounts({a})
    \/ \E resp \in FaucetStates : LoadFaucetAccount(resp)
    \/ Round
    \/ Mint
    \/ Wait
    \/ CheckTxnResults
    \/ RoundReturn
    \/ \E rej, unc \in {"true", "false", "panic"} : MintFinish(rej, unc)
    \/ MeasureFinish
    \/ NextRound

Spec == Init /\ [][Next]_vars

\* ------------------------------------------------- one round, by thread
\* The stagger ranges a Benchmarker is constructed with: none, and one wide
\* enough for two threads to draw different non-zero delays.
StaggerRanges == {0, 3}

\* Benchmarker::new with any of the stagger ranges.
InitThreads ==
    /\ stagger_range_ms \in StaggerRanges
    /\ submit_rate = "rate_cfg"
    /\ prev_sequence_numbers = EmptyMap
    /\ sequence_number = [a \in GeneratedAddr |-> 0]
    /\ pc = "idle"
    /\ panic_site = "none"
    /\ api = "none"
    /\ requests = <<>>
    /\ senders = <<>>
    /\ rate = NoneRate
    /\ saved_stagger = 0
    /\ submit_children = <<>>
    /\ wait_children = <<>>
    /\ submitted = NoSubmitted
    /\ synced = NoSynced
    /\ checked = NoChecked
    /\ summary = NoSummary
    /\ flags = NoFlags
    /\ op_counter = [committed_txns |-> 0, timedout_txns |-> 0]
    /\ inserted = {}
    /\ before = NoBefore
    /\ outstanding = EmptyMap
    /\ rate_opt = NoneRate
    /\ throughput = NoThroughput
    /\ faucet_queries = <<>>

\* What a step of a spawned thread leaves alone: everything but the
\* thread's own JoinHandle.
worker_frame == <<stagger_range_ms, submit_rate, prev_sequence_numbers, sequence_number,
                  pc, panic_site, api, requests, senders, rate, saved_stagger,
                  submitted, synced, checked, summary, flags, op_counter, inserted,
                  before, outstanding, rate_opt, throughput, faucet_queries>>

\* What the orchestrating thread leaves alone from the spawn of the submit
\* threads to the return of wait_txns_committed.
phase_frame == <<stagger_range_ms, submit_rate, prev_sequence_numbers, sequence_number,
                 api, requests, senders, saved_stagger, checked, summary, flags,
                 op_counter, inserted, before, outstanding, rate_opt, throughput,
                 faucet_queries>>

\* The caller has the requests cnt generated and calls
\* submit_requests_and_wait_txns_committed(requests, senders, opt):
\* submit_requests spawns its threads.
StartRound(cnt, S, opt) ==
    /\ pc = "idle"
    /\ GenerateRequests(cnt)
    /\ S \subseteq DOMAIN sequence_number
    /\ api' = "round"
    /\ senders' = SetToSeq(S)
    /\ rate_opt' = opt
    /\ rate' = UnwrapRate(opt, submit_rate)
    /\ submit_children' = SpawnSubmit(requests', stagger_range_ms, rate')
    /\ submitted' = [NoSubmitted EXCEPT !.delay = stagger_range_ms]
    /\ pc' = "join_submit"
    /\ UNCHANGED <<stagger_range_ms, submit_rate, prev_sequence_numbers, panic_site,
                   saved_stagger, wait_children, synced, checked, summary, flags,
                   op_counter, inserted, before, outstanding, throughput,
                   faucet_queries>>

\* mint_accounts(mint_requests, faucet_account) up to the spawn of the
\* submit threads.
StartMint(n) ==
    /\ pc = "idle"
    /\ FaucetAddr \in DOMAIN sequence_number
    /\ GenerateRequests([a \in DOMAIN sequence_number |->
                            IF a = FaucetAddr THEN n ELSE 0])
    /\ api' = "mint"
    /\ saved_stagger' = stagger_range_ms
    /\ stagger_range_ms' = 1
    /\ senders' = <<FaucetAddr>>
    /\ rate_opt' = RateMax
    /\ rate' = UnwrapRate(rate_opt', submit_rate)
    /\ submit_children' = SpawnSubmit(requests', stagger_range_ms', rate')
    /\ submitted' = [NoSubmitted EXCEPT !.delay = stagger_range_ms']
    /\ pc' = "join_submit"
    /\ UNCHANGED <<submit_rate, prev_sequence_numbers, panic_site, wait_children,
                   synced, checked, summary, flags, op_counter, inserted, before,
                   outstanding, throughput, faucet_queries>>

\* Submit thread i ends: it returns its responses and its delay, or panics.
SubmitWorker(i) ==
    /\ i \in DOMAIN submit_children
    /\ submit_children[i].state = "running"
    /\ \E r \in SubmitResults(submit_children[i]) :
           submit_children' = [submit_children EXCEPT ![i] = r]
    /\ UNCHANGED <<wait_children, worker_frame>>

\* Submit thread i blocks for ever in submit_and_wait_requests.
SubmitWorkerHangs(i) ==
    /\ i \in DOMAIN submit_children
    /\ submit_children[i].state = "running"
    /\ submit_children' = [submit_children EXCEPT ![i].state = "hung"]
    /\ UNCHANGED <<wait_children, worker_frame>>

\* A join with a timeout: it gives up on a thread that hangs and goes on.
JoinSubmit_TimesOut ==
    /\ pc = "join_submit"
    /\ submitted.joined < Len(submit_children)
    /\ submit_children[submitted.joined + 1].state \in {"done", "panicked", "hung"}
    /\ LET acc == JoinSubmitChild(submitted, submit_children[submitted.joined + 1]) IN
       IF acc.panicked
       THEN /\ submitted' = [NoSubmitted EXCEPT !.panicked = TRUE]
            /\ Panic("join_submit")
       ELSE /\ submitted' = acc
            /\ UNCHANGED <<pc, panic_site>>
    /\ UNCHANGED <<rate, submit_children, wait_children, synced, phase_frame>>

\* The next child.join() of submit_requests returns.
JoinSubmit ==
    /\ pc = "join_submit"
    /\ submitted.joined < Len(submit_children)
    /\ submit_children[submitted.joined + 1].state \in {"done", "panicked"}
    /\ LET acc == JoinSubmitChild(submitted, submit_children[submitted.joined + 1]) IN
       IF acc.panicked
       THEN /\ submitted' = [NoSubmitted EXCEPT !.panicked = TRUE]
            /\ Panic("join_submit")
       ELSE /\ submitted' = acc
            /\ UNCHANGED <<pc, panic_site>>
    /\ UNCHANGED <<rate, submit_children, wait_children, synced, phase_frame>>

\* All submit threads are joined: submit_requests returns e ms after the
\* longest delay.
SubmitDone(e) ==
    /\ pc = "join_submit"
    /\ submitted.joined = Len(submit_children)
    /\ e \in 0..MaxElapsed
    /\ submitted' = [submitted EXCEPT
                         !.raw = MaxDelay(submit_children, Len(submit_children)) + e,
                         !.duration = RequestDuration(
                                          MaxDelay(submit_children, Len(submit_children)) + e,
                                          submitted.delay, stagger_range_ms)]
    /\ submit_children' = <<>>
    /\ pc' = "submitted"
    /\ UNCHANGED <<rate, panic_site, wait_children, synced, phase_frame>>

\* wait_txns_committed(senders) spawns its threads.
StartWait ==
    /\ pc = "submitted"
    /\ wait_children' = SpawnWait(senders, sequence_number)
    /\ pc' = "join_wait"
    /\ UNCHANGED <<rate, panic_site, submit_children, submitted, synced, phase_frame>>

\* Wait thread i ends: it returns the map of its chunk, or panics.
WaitWorker(i) ==
    /\ i \in DOMAIN wait_children
    /\ wait_children[i].state = "running"
    /\ \E r \in WaitResults(wait_children[i]) :
           wait_children' = [wait_children EXCEPT ![i] = r]
    /\ UNCHANGED <<submit_children, worker_frame>>

\* Wait thread i blocks for ever in sync_account_sequence_number.
WaitWorkerHangs(i) ==
    /\ i \in DOMAIN wait_children
    /\ wait_children[i].state = "running"
    /\ wait_children' = [wait_children EXCEPT ![i].state = "hung"]
    /\ UNCHANGED <<submit_children, worker_frame>>

\* A join that does not block: it takes whatever the thread has so far.
JoinWait_DoesNotBlock ==
    /\ pc = "join_wait"
    /\ synced.joined < Len(wait_children)
    /\ LET acc == JoinWaitChild(synced, wait_children[synced.joined + 1]) IN
       IF acc.panicked
       THEN /\ synced' = [NoSynced EXCEPT !.panicked = TRUE]
            /\ Panic("join_wait")
       ELSE /\ synced' = acc
            /\ UNCHANGED <<pc, panic_site>>
    /\ UNCHANGED <<rate, submit_children, wait_children, submitted, phase_frame>>

\* The next child.join() of wait_txns_committed returns.
JoinWait ==
    /\ pc = "join_wait"
    /\ synced.joined < Len(wait_children)
    /\ wait_children[synced.joined + 1].state \in {"done", "panicked"}
    /\ LET acc == JoinWaitChild(synced, wait_children[synced.joined + 1]) IN
       IF acc.panicked
       THEN /\ synced' = [NoSynced EXCEPT !.panicked = TRUE]
            /\ Panic("join_wait")
       ELSE /\ synced' = acc
            /\ UNCHANGED <<pc, panic_site>>
    /\ UNCHANGED <<rate, submit_children, wait_children, submitted, phase_frame>>

\* All wait threads are joined: wait_txns_committed returns after e ms.
WaitDone(e) ==
    /\ pc = "join_wait"
    /\ synced.joined = Len(wait_children)
    /\ e \in 0..MaxElapsed
    /\ synced' = [synced EXCEPT !.duration = e]
    /\ wait_children' = <<>>
    /\ pc' = "check"
    /\ UNCHANGED <<rate, panic_site, submit_children, submitted, phase_frame>>

\* A round with any requests, senders and rate override begins.
BeginRound ==
    \E cnt \in Counts, S \in SUBSET Addr, opt \in {NoneRate, "rate_override"} :
        StartRound(cnt, S, opt)

\* A minting round with any number of mint requests begins.
BeginMint == \E n \in 0..MaxReq : StartMint(n)

\* One round or one minting round, thread by thread, on a Benchmarker set
\* up by register_accounts and load_faucet_account.
NextThreads ==
    \/ RegisterAccounts(GeneratedAddr)
    \/ \E resp \in FaucetStates : LoadFaucetAccount(resp)
    \/ BeginRound
    \/ BeginMint
    \/ \E i \in 1..NumClients : SubmitWorker(i)
    \/ \E i \in 1..NumClients : SubmitWorkerHangs(i)
    \/ JoinSubmit
    \/ SubmitDone(MaxElapsed)
    \/ StartWait
    \/ \E i \in 1..NumClients : WaitWorker(i)
    \/ \E i \in 1..NumClients : WaitWorkerHangs(i)
    \/ JoinWait
    \/ WaitDone(MaxElapsed)
    \/ CheckTxnResults
    \/ RoundReturn
    \/ \E rej, unc \in {"true", "false", "panic"} : MintFinish(rej, unc)

SpecThreads == Init /\ [][NextThreads]_vars

\* The orchestrating thread runs whenever it can; a spawned thread that is
\* running eventually returns, panics or is found to hang.
FairThreads ==
    /\ WF_vars(JoinSubmit)
    /\ WF_vars(SubmitDone(MaxElapsed))
    /\ WF_vars(StartWait)
    /\ WF_vars(JoinWait)
    /\ WF_vars(WaitDone(MaxElapsed))
    /\ WF_vars(CheckTxnResults)
    /\ WF_vars(RoundReturn)
    /\ WF_vars(\E rej, unc \in {"true", "false", "panic"} : MintFinish(rej, unc))
    /\ \A i \in 1..NumClients : WF_vars(SubmitWorker(i) \/ SubmitWorkerHangs(i))
    /\ \A i \in 1..NumClients : WF_vars(WaitWorker(i) \/ WaitWorkerHangs(i))

SpecThreadsFair == Init /\ [][NextThreads]_vars /\ FairThreads

\* One round or one minting round of a Benchmarker constructed with any of
\* the stagger ranges: submit_requests thread by thread, any elapsed time.
NextDispatch ==
    \/ RegisterAccounts(GeneratedAddr)
    \/ \E resp \in FaucetStates : LoadFaucetAccount(resp)
    \/ BeginRound
    \/ BeginMint
    \/ \E i \in 1..NumClients : SubmitWorker(i)
    \/ JoinSubmit
    \/ \E e \in 0..MaxElapsed : SubmitDone(e)
    \/ Wait
    \/ CheckTxnResults
    \/ RoundReturn
    \/ \E rej, unc \in {"true", "false", "panic"} : MintFinish(rej, unc)

SpecDispatch == InitThreads /\ [][NextDispatch]_vars

\* ------------------------------------------------- BenchSummary, alone
\* The summaries a round can return: any counts with accepted <= submitted
\* and any durations, zero included.
Summaries ==
    {b \in [num_submitted : 0..MaxReq, num_accepted : 0..MaxReq,
            num_committed : 0..MaxReq, submit_duration_ms : 0..MaxElapsed,
            wait_duration_ms : 0..MaxElapsed] :
        b.num_accepted <= b.num_submitted}

\* A caller holds the summary a round returned.
InitSummary ==
    /\ summary \in Summaries
    /\ pc = "returned"
    /\ api = "round"
    /\ stagger_range_ms = StaggerRange
    /\ submit_rate = "rate_cfg"
    /\ prev_sequence_numbers = EmptyMap
    /\ sequence_number = [a \in GeneratedAddr |-> 0]
    /\ panic_site = "none"
    /\ requests = <<>>
    /\ senders = <<>>
    /\ rate = NoneRate
    /\ saved_stagger = 0
    /\ submit_children = <<>>
    /\ wait_children = <<>>
    /\ submitted = NoSubmitted
    /\ synced = NoSynced
    /\ checked = NoChecked
    /\ flags = NoFlags
    /\ op_counter = [committed_txns |-> 0, timedout_txns |-> 0]
    /\ inserted = {}
    /\ before = NoBefore
    /\ outstanding = EmptyMap
    /\ rate_opt = NoneRate
    /\ throughput = NoThroughput
    /\ faucet_queries = <<>>

\* What a call on a BenchSummary leaves alone.
summary_frame == <<stagger_range_ms, submit_rate, prev_sequence_numbers, sequence_number,
                   requests, senders, rate, saved_stagger, submit_children,
                   wait_children, submitted, synced, checked, summary, flags,
                   op_counter, inserted, before, outstanding, rate_opt,
                   faucet_queries>>

\* The caller calls summary.req_throughput().
ReqThroughput ==
    /\ pc = "returned"
    /\ api' = "req_throughput"
    /\ IF req_throughput(summary) = Panicked
       THEN /\ Panic("req_throughput")
            /\ UNCHANGED throughput
       ELSE /\ throughput' = [throughput EXCEPT !.req = req_throughput(summary)]
            /\ UNCHANGED <<pc, panic_site>>
    /\ UNCHANGED summary_frame

\* The caller calls summary.txn_throughput().
TxnThroughput ==
    /\ pc = "returned"
    /\ api' = "txn_throughput"
    /\ IF txn_throughput(summary) = Panicked
       THEN /\ Panic("txn_throughput")
            /\ UNCHANGED throughput
       ELSE /\ throughput' = [throughput EXCEPT !.txn = txn_throughput(summary)]
            /\ UNCHANGED <<pc, panic_site>>
    /\ UNCHANGED summary_frame

NextSummary == ReqThroughput \/ TxnThroughput

SpecSummary == InitSummary /\ [][NextSummary]_vars

\* ------------------------------------- check_txn_results, integer widths
\* u64 values are 0..WordU64 - 1: the width of the sequence numbers and of
\* committed_txns and uncommitted_txns, scaled down to two bits.
WordU64 == 4

\* usize values are 0..m - 1 for m the modulus of the target: as wide as
\* u64, or narrower.
UsizeModuli == {2, WordU64}

\* One iteration of the loop in u64 arithmetic. The two subtractions cannot
\* underflow after the assert!s. When a += overflows, a build with overflow
\* checks panics there, before the two assignments; a build without them
\* wraps.
CheckSenderU64(st, a, sync, overflow_checks) ==
    LET next == CheckSender(st, a, sync) IN
    IF st.panicked \/ next.panicked THEN next
    ELSE IF next.committed < WordU64 /\ next.uncommitted < WordU64 THEN next
    ELSE IF overflow_checks THEN [st EXCEPT !.panicked = TRUE, !.failed_at = a]
    ELSE [next EXCEPT !.committed = @ % WordU64, !.uncommitted = @ % WordU64]

RECURSIVE CheckLoopU64(_, _, _, _, _)
\* for sender in senders.iter_mut(), in u64 arithmetic.
CheckLoopU64(st, snd, i, sync, overflow_checks) ==
    IF i > Len(snd) THEN st
    ELSE CheckLoopU64(CheckSenderU64(st, snd[i], sync, overflow_checks),
                      snd, i + 1, sync, overflow_checks)

\* The two try_into().expect("Unable to convert u64 to usize") after the
\* loop: a sum that does not fit usize panics.
TryIntoUsize(st, usize_modulus) ==
    IF st.panicked THEN st
    ELSE IF st.committed >= usize_modulus \/ st.uncommitted >= usize_modulus
    THEN [st EXCEPT !.panicked = TRUE]
    ELSE st

\* check_txn_results in the integer widths of a build and target.
check_txn_results_u64(prev, seq, snd, sync, overflow_checks, usize_modulus) ==
    TryIntoUsize(CheckLoopU64(CheckStart(prev, seq), snd, 1, sync, overflow_checks),
                 usize_modulus)

\* The u64 values.
U64 == 0..(WordU64 - 1)

\* wait_txns_committed has returned in a round: any table, any local
\* sequence numbers of the accounts, any senders, any synced numbers.
InitWidth ==
    /\ pc = "check"
    /\ api = "round"
    /\ prev_sequence_numbers \in [Addr -> U64]
    /\ sequence_number \in [Addr -> U64]
    /\ \E S \in SUBSET Addr :
          /\ S # {}
          /\ senders = SetToSeq(S)
          /\ \E m \in [S -> U64] :
                synced = [map |-> m, joined |-> NumClients, duration |-> 0,
                          panicked |-> FALSE]
    /\ stagger_range_ms = StaggerRange
    /\ submit_rate = "rate_cfg"
    /\ panic_site = "none"
    /\ requests = <<>>
    /\ rate = NoneRate
    /\ saved_stagger = 0
    /\ submit_children = <<>>
    /\ wait_children = <<>>
    /\ submitted = [NoSubmitted EXCEPT !.joined = NumClients]
    /\ checked = NoChecked
    /\ summary = NoSummary
    /\ flags = NoFlags
    /\ op_counter = [committed_txns |-> 0, timedout_txns |-> 0]
    /\ inserted = Addr
    /\ before = NoBefore
    /\ outstanding = EmptyMap
    /\ rate_opt = NoneRate
    /\ throughput = NoThroughput
    /\ faucet_queries = <<>>

\* check_txn_results(senders, &sync_sequence_numbers) in a build with or
\* without overflow checks, on a target with the usize modulus.
CheckTxnResultsWidth(overflow_checks, usize_modulus) ==
    /\ pc = "check"
    /\ LET r == check_txn_results_u64(prev_sequence_numbers, sequence_number,
                                      senders, synced.map, overflow_checks,
                                      usize_modulus) IN
       /\ before' = [prev |-> prev_sequence_numbers, seq |-> sequence_number]
       /\ prev_sequence_numbers' = r.prev
       /\ sequence_number' = r.seq
       /\ IF r.panicked
          THEN /\ checked' = [NoChecked EXCEPT !.panicked = TRUE,
                                               !.failed_at = r.failed_at]
               /\ Panic("check_txn_results")
               /\ UNCHANGED <<op_counter, outstanding>>
          ELSE /\ checked' = [committed |-> r.committed, uncommitted |-> r.uncommitted,
                              panicked |-> FALSE, failed_at |-> -1]
               /\ op_counter' =
                      [committed_txns |-> op_counter.committed_txns + r.committed,
                       timedout_txns |-> op_counter.timedout_txns + r.uncommitted]
               /\ outstanding' =
                      Outstanding(outstanding, senders, sequence_number, synced.map)
               /\ pc' = "checked"
               /\ UNCHANGED panic_site
    /\ UNCHANGED <<stagger_range_ms, submit_rate, api, requests, senders, rate,
                   saved_stagger, submit_children, wait_children, submitted, synced,
                   summary, flags, inserted, rate_opt, throughput, faucet_queries>>

NextWidth ==
    \/ \E overflow_checks \in BOOLEAN, usize_modulus \in UsizeModuli :
          CheckTxnResultsWidth(overflow_checks, usize_modulus)
    \/ RoundReturn

SpecWidth == InitWidth /\ [][NextWidth]_vars

\* ------------------------------------------- registrations, then rounds
\* A caller that registers its accounts and loads the faucet account before
\* its first round, and not after.
RoundsBegun == api # "none"

RegisterFirst(S) == ~RoundsBegun /\ RegisterAccounts(S)

LoadFaucetFirst(resp) == ~RoundsBegun /\ LoadFaucetAccount(resp)

\* The caller is done with the round and goes on to its next round.
NextRoundAfter ==
    /\ pc = "returned"
    /\ pc' = "idle"
    /\ api' = "between_rounds"
    /\ requests' = <<>>
    /\ senders' = <<>>
    /\ rate' = NoneRate
    /\ saved_stagger' = 0
    /\ submitted' = NoSubmitted
    /\ synced' = NoSynced
    /\ checked' = NoChecked
    /\ summary' = NoSummary
    /\ flags' = NoFlags
    /\ before' = NoBefore
    /\ rate_opt' = NoneRate
    /\ throughput' = NoThroughput
    /\ UNCHANGED <<stagger_range_ms, submit_rate, prev_sequence_numbers, sequence_number,
                   panic_site, submit_children, wait_children, op_counter, inserted,
                   outstanding, faucet_queries>>

NextRegisterFirst ==
    \/ \E a \in Addr : RegisterFirst({a})
    \/ \E resp \in FaucetStates : LoadFaucetFirst(resp)
    \/ Round
    \/ Mint
    \/ Wait
    \/ CheckTxnResults
    \/ RoundReturn
    \/ \E rej, unc \in {"true", "false", "panic"} : MintFinish(rej, unc)
    \/ MeasureFinish
    \/ NextRoundAfter

SpecRegisterFirst == Init /\ [][NextRegisterFirst]_vars

\* ----------------------------------------------------------------- claims
\* check_txn_results has run in the round in progress, and the round's
\* senders, synced map and pre-state are still at hand.
CheckRan == before # NoBefore

\* ... and it ran to completion.
CheckCompleted == CheckRan /\ ~checked.panicked

\* The senders' ordering invariant on the state check_txn_results began in.
OrderedBefore(a) ==
    /\ a \in DOMAIN before.prev
    /\ a \in DOMAIN synced.map
    /\ before.seq[a] >= synced.map[a]
    /\ synced.map[a] >= before.prev[a]

Str(b) == IF b THEN "true" ELSE "false"

\* C1: after a reconcile that completes, every sender's table entry and
\* local sequence number equal the synced sequence number supplied for it.
C1_ReconcileResets ==
    CheckCompleted =>
        \A a \in Range(senders) :
            /\ a \in DOMAIN prev_sequence_numbers
            /\ prev_sequence_numbers[a] = synced.map[a]
            /\ sequence_number[a] = synced.map[a]

\* A completed reconcile of two senders that moved a table entry and a
\* local sequence number.
C1_Witness ==
    /\ CheckCompleted
    /\ Len(senders) = 2
    /\ \E a \in Range(senders) : before.prev[a] # synced.map[a]
    /\ \E a \in Range(senders) : before.seq[a] # synced.map[a]

\* C2: when local >= synced >= prior holds for every sender, reconcile
\* returns committed = the sum of synced - prior and uncommitted = the sum
\* of local - synced, over the values read before the update; both >= 0.
C2_ReconcileSums ==
    (CheckRan /\ \A a \in Range(senders) : OrderedBefore(a)) =>
        /\ ~checked.panicked
        /\ checked.committed =
               SumOver([a \in Range(senders) |-> synced.map[a] - before.prev[a]],
                       Range(senders))
        /\ checked.uncommitted =
               SumOver([a \in Range(senders) |-> before.seq[a] - synced.map[a]],
                       Range(senders))
        /\ checked.committed >= 0
        /\ checked.uncommitted >= 0

\* Two senders, one of them with prior < synced < local.
C2_Witness ==
    /\ CheckCompleted
    /\ Len(senders) = 2
    /\ \E a \in Range(senders) :
           before.prev[a] < synced.map[a] /\ synced.map[a] < before.seq[a]
    /\ checked.committed >= 1
    /\ checked.uncommitted >= 1

\* C3: if local < synced or synced < prior holds for a sender when
\* reconcile examines it, reconcile panics and returns no counts.
C3_ViolationAborts ==
    (CheckRan /\ \E a \in Range(senders) :
                     /\ a \in DOMAIN before.prev
                     /\ a \in DOMAIN synced.map
                     /\ \/ before.seq[a] < synced.map[a]
                        \/ synced.map[a] < before.prev[a]) =>
        /\ pc = "panicked"
        /\ panic_site = "check_txn_results"
        /\ checked.panicked
        /\ checked.committed = 0 /\ checked.uncommitted = 0
        /\ summary = NoSummary

\* Reconcile aborted on the second sender, whose synced value is below its
\* prior value, after a first sender that was in order.
C3_Witness ==
    /\ panic_site = "check_txn_results"
    /\ Len(senders) = 2
    /\ OrderedBefore(senders[1])
    /\ checked.failed_at = senders[2]
    /\ senders[2] \in DOMAIN before.prev
    /\ senders[2] \in DOMAIN synced.map
    /\ synced.map[senders[2]] < before.prev[senders[2]]

\* C4: an account a completed round left with local > synced is reconciled
\* normally in the next round, whatever synced value between the reset
\* value and the originally accepted value the service reports: reconcile
\* does not abort on it.
C4_OutstandingResolved ==
    panic_site = "check_txn_results" =>
        ~ (/\ checked.failed_at \in DOMAIN outstanding
           /\ checked.failed_at \in DOMAIN before.prev
           /\ checked.failed_at \in DOMAIN synced.map
           /\ before.prev[checked.failed_at] = outstanding[checked.failed_at].reset
           /\ synced.map[checked.failed_at] >= outstanding[checked.failed_at].reset
           /\ synced.map[checked.failed_at] <= outstanding[checked.failed_at].high)

\* C5: for every summary, has_rejected_txns is true exactly when
\* submitted > accepted and has_uncommitted_txns is true exactly when
\* accepted > committed, and false otherwise (also when committed > accepted).
C5_SummaryPredicates ==
    (pc = "returned" \/ flags # NoFlags) =>
        /\ has_rejected_txns(summary) =
               {Str(summary.num_submitted > summary.num_accepted)}
        /\ has_uncommitted_txns(summary) =
               {Str(summary.num_accepted > summary.num_committed)}
        /\ flags.uncommitted \in
               {"none", Str(summary.num_accepted > summary.num_committed)}

\* C6: no operation leaves an account's local sequence number lower than
\* it was.
C6_LocalNeverDecreases ==
    [][\A a \in DOMAIN sequence_number : sequence_number'[a] >= sequence_number[a]]_vars

\* C6, amended: only check_txn_results lowers a local sequence number, and
\* it lowers it to the account's synced value, which is not below the
\* account's prior value.
C6_LocalLoweredOnlyByReconcile ==
    [][\A a \in DOMAIN sequence_number :
          sequence_number'[a] < sequence_number[a] =>
              /\ pc = "check"
              /\ a \in Range(senders)
              /\ a \in DOMAIN synced.map /\ a \in DOMAIN prev_sequence_numbers
              /\ sequence_number'[a] = synced.map[a]
              /\ sequence_number'[a] >= prev_sequence_numbers[a]]_vars

\* A completed reconcile lowered a sender's local sequence number.
C6_Witness ==
    /\ CheckCompleted
    /\ \E a \in Range(senders) : sequence_number[a] < before.seq[a]

\* C7: after a reconcile that completes, every account's table entry is at
\* least what it was before that reconcile.
C7_PriorNonDecreasing ==
    CheckCompleted =>
        \A a \in DOMAIN before.prev :
            /\ a \in DOMAIN prev_sequence_numbers
            /\ prev_sequence_numbers[a] >= before.prev[a]

\* A completed reconcile raised a table entry and left another as it was.
C7_Witness ==
    /\ CheckCompleted
    /\ \E a \in DOMAIN before.prev : prev_sequence_numbers[a] > before.prev[a]
    /\ \E a \in DOMAIN before.prev : prev_sequence_numbers[a] = before.prev[a]

\* C8: reconcile called with the synced sequence numbers an earlier call
\* applied, the senders as that call left them, returns (0, 0) and changes
\* no table entry and no local sequence number.
C8_ReconcileIdempotent ==
    (CheckRan /\ \A a \in Range(senders) :
                     /\ a \in DOMAIN before.prev
                     /\ a \in DOMAIN synced.map
                     /\ before.prev[a] = synced.map[a]
                     /\ before.seq[a] = synced.map[a]) =>
        /\ ~checked.panicked
        /\ checked.committed = 0
        /\ checked.uncommitted = 0
        /\ prev_sequence_numbers = before.prev
        /\ sequence_number = before.seq

\* A second reconcile of two senders, after one that committed requests,
\* with the synced values already applied.
C8_Witness ==
    /\ CheckCompleted
    /\ Len(senders) = 2
    /\ op_counter.committed_txns >= 2
    /\ \A a \in Range(senders) :
           /\ synced.map[a] > 0
           /\ before.prev[a] = synced.map[a]
           /\ before.seq[a] = synced.map[a]

\* C9: mint_accounts returns normally exactly when every mint request was
\* accepted and every accepted one committed; otherwise it panics.
C9_MintAllOrPanic ==
    (api = "mint" /\ flags # NoFlags) =>
        /\ pc = "returned" <=>
               /\ summary.num_accepted = summary.num_submitted
               /\ summary.num_committed = summary.num_accepted
        /\ pc # "returned" => pc = "panicked" /\ panic_site = "mint_accounts"

\* A minting round of two requests, one of them rejected, panicked.
C9_Witness ==
    /\ api = "mint"
    /\ panic_site = "mint_accounts"
    /\ summary.num_submitted = 2
    /\ summary.num_accepted = 1

\* C10: the keys of the table are exactly the addresses register_accounts
\* and load_faucet_account inserted so far.
C10_KeysAreInserted == DOMAIN prev_sequence_numbers = inserted

\* Both addresses inserted and still keys after a completed round.
C10_Witness ==
    /\ inserted = Addr
    /\ pc = "returned"
    /\ Len(senders) = 2

\* The last get_account_states call of load_faucet_account.
LastQuery == faucet_queries[Len(faucet_queries)]

\* C11: load_faucet_account queries the first client only; if the answer
\* has no entry for the faucet address or its status is not Persisted it
\* panics and leaves the table as it was; otherwise it sets the table entry
\* of the faucet address to the sequence number answered and returns an
\* account with that same sequence number.
C11_LoadFaucetAccount ==
    [][faucet_queries' # faucet_queries =>
          /\ Len(faucet_queries') = Len(faucet_queries) + 1
          /\ LastQuery'.client = FirstClient
          /\ IF LastQuery'.states.found /\ LastQuery'.states.status = "Persisted"
             THEN /\ pc' = pc /\ panic_site' = panic_site
                  /\ prev_sequence_numbers' =
                         [a \in DOMAIN prev_sequence_numbers \cup {FaucetAddr} |->
                             IF a = FaucetAddr THEN LastQuery'.states.sequence_number
                             ELSE prev_sequence_numbers[a]]
                  /\ FaucetAddr \in DOMAIN sequence_number'
                  /\ sequence_number'[FaucetAddr] = LastQuery'.states.sequence_number
             ELSE /\ pc' = "panicked"
                  /\ panic_site' = "load_faucet_account"
                  /\ prev_sequence_numbers' = prev_sequence_numbers
                  /\ sequence_number' = sequence_number]_vars

\* load_faucet_account panicked on an account that is not Persisted, with
\* a registered account in the table.
C11_Witness ==
    /\ panic_site = "load_faucet_account"
    /\ Len(faucet_queries) = 1
    /\ LastQuery.states.found
    /\ LastQuery.states.status = "Local"
    /\ LastQuery.states.sequence_number > 0
    /\ DOMAIN prev_sequence_numbers = GeneratedAddr

\* C12: req_throughput panics and returns nothing when submit_duration_ms
\* is 0, txn_throughput panics when submit_duration_ms + wait_duration_ms
\* is 0; otherwise each returns the quotient its summary's fields give.
C12_ThroughputPreconditions ==
    /\ api = "req_throughput" =>
           IF summary.submit_duration_ms = 0
           THEN /\ pc = "panicked" /\ panic_site = "req_throughput"
                /\ throughput.req = NotCalled
           ELSE /\ pc = "returned"
                /\ throughput.req =
                       Quotient(summary.num_accepted * 1000, summary.submit_duration_ms)
    /\ api = "txn_throughput" =>
           IF summary.submit_duration_ms + summary.wait_duration_ms = 0
           THEN /\ pc = "panicked" /\ panic_site = "txn_throughput"
                /\ throughput.txn = NotCalled
           ELSE /\ pc = "returned"
                /\ throughput.txn =
                       Quotient(summary.num_committed * 1000,
                                summary.submit_duration_ms + summary.wait_duration_ms)

\* req_throughput was called on a summary with accepted requests, a zero
\* submit duration and a positive wait duration, and panicked.
C12_Witness ==
    /\ api = "req_throughput"
    /\ summary.submit_duration_ms = 0
    /\ summary.wait_duration_ms > 0
    /\ summary.num_accepted > 0
    /\ pc = "panicked"

RECURSIVE Flatten(_, _)
\* The chunks i.. of a sequence of chunks, concatenated in order.
Flatten(chunks, i) ==
    IF i > Len(chunks) THEN <<>> ELSE chunks[i] \o Flatten(chunks, i + 1)

\* The accounts the wait threads were given, in order.
WaitAccounts ==
    Flatten([i \in DOMAIN wait_children |->
                [j \in DOMAIN wait_children[i].chunk |-> wait_children[i].chunk[j][1]]], 1)

\* C13: a round runs submit_requests, then wait_txns_committed, then
\* check_txn_results, the last two over the senders it was given; the submit
\* threads get the rate override if there is one and the configured rate
\* otherwise; the summary returned holds the number of requests passed in,
\* the accepted count and duration of submit_requests, the committed count
\* of check_txn_results and the duration of wait_txns_committed.
C13_RoundPhases ==
    /\ \A i \in DOMAIN submit_children :
           submit_children[i].rate =
               (IF rate_opt = NoneRate THEN submit_rate ELSE rate_opt)
    /\ pc = "join_submit" =>
           wait_children = <<>> /\ synced = NoSynced /\ ~CheckRan
    /\ pc \in {"submitted", "join_wait"} =>
           /\ submit_children = <<>>
           /\ submitted.joined = NumClients
           /\ ~CheckRan
    /\ pc = "join_wait" => WaitAccounts = senders
    /\ CheckRan =>
           /\ wait_children = <<>>
           /\ synced.joined = NumClients
           /\ submitted.joined = NumClients
           /\ DOMAIN synced.map = Range(senders)
    /\ pc = "returned" =>
           /\ CheckCompleted
           /\ summary.num_submitted = Len(requests)
           /\ summary.num_accepted = submitted.accepted
           /\ summary.submit_duration_ms = submitted.duration
           /\ summary.num_committed = checked.committed
           /\ summary.wait_duration_ms = synced.duration

\* A round with a rate override, two requests of which one was accepted,
\* and two senders, has returned its summary.
C13_Witness ==
    /\ pc = "returned"
    /\ api = "round"
    /\ rate_opt = "rate_override"
    /\ Len(senders) = 2
    /\ summary.num_submitted = 2
    /\ summary.num_accepted = 1
    /\ summary.num_committed >= 1
    /\ summary.submit_duration_ms > 0

\* C14: a phase returns its result only when all its threads are joined;
\* the table, the senders' sequence numbers and the counters are written
\* by the orchestrating thread only, in a round only after every wait
\* thread is joined; the wait threads are spawned only after every submit
\* thread is joined; a step of a thread changes nothing but that thread.
C14_BarriersAndOwnership ==
    [][/\ \A i \in DOMAIN submit_children :
              (/\ submit_children[i].state = "running"
               /\ i \in DOMAIN submit_children'
               /\ submit_children'[i].state # "running") =>
                  /\ UNCHANGED <<worker_frame, wait_children>>
                  /\ \A j \in DOMAIN submit_children \ {i} :
                         submit_children'[j] = submit_children[j]
       /\ \A i \in DOMAIN wait_children :
              (/\ wait_children[i].state = "running"
               /\ i \in DOMAIN wait_children'
               /\ wait_children'[i].state # "running") =>
                  /\ UNCHANGED <<worker_frame, submit_children>>
                  /\ \A j \in DOMAIN wait_children \ {i} :
                         wait_children'[j] = wait_children[j]
       /\ (\/ prev_sequence_numbers' # prev_sequence_numbers
           \/ sequence_number' # sequence_number
           \/ op_counter' # op_counter) =>
              \/ pc = "idle"
              \/ /\ pc = "check"
                 /\ submit_children = <<>> /\ wait_children = <<>>
                 /\ synced.joined = NumClients
       /\ (wait_children = <<>> /\ wait_children' # <<>>) =>
              /\ pc = "submitted"
              /\ submit_children = <<>>
              /\ submitted.joined = NumClients
       /\ (pc # "submitted" /\ pc' = "submitted") =>
              /\ submitted.joined = NumClients
              /\ \A i \in DOMAIN submit_children : submit_children[i].state = "done"
       /\ (pc # "check" /\ pc' = "check") =>
              /\ synced.joined = NumClients
              /\ \A i \in DOMAIN wait_children : wait_children[i].state = "done"
      ]_vars

\* The second wait thread has ended before the first, which is still
\* running: nothing is joined and the round waits.
C14_Witness ==
    /\ pc = "join_wait"
    /\ wait_children[1].state = "running"
    /\ wait_children[2].state = "done"
    /\ DOMAIN wait_children[2].result # {}
    /\ synced.joined = 0
    /\ synced.map = EmptyMap

\* C15: the value of an existing table entry changes only in a
\* check_txn_results that completes: not in submit_requests or
\* wait_txns_committed, not in a check_txn_results that panics, not in
\* register_accounts or load_faucet_account.
C15_EntriesChangeOnlyOnSuccess ==
    [][\A a \in DOMAIN prev_sequence_numbers :
          (a \in DOMAIN prev_sequence_numbers'
           /\ prev_sequence_numbers'[a] # prev_sequence_numbers[a]) =>
              (pc = "check" /\ pc' = "checked")]_vars

\* A submit thread, or a wait thread, has panicked.
SubmitPanicked == \E i \in DOMAIN submit_children : submit_children[i].state = "panicked"
WaitPanicked == \E i \in DOMAIN wait_children : wait_children[i].state = "panicked"

\* A submit thread, or a wait thread, hangs.
SubmitHung == \E i \in DOMAIN submit_children : submit_children[i].state = "hung"
WaitHung == \E i \in DOMAIN wait_children : wait_children[i].state = "hung"

\* C16: once a submit thread has panicked, submit_requests returns no
\* result, not even what the other threads returned, wait_txns_committed
\* and check_txn_results are not started and the table and the senders stay
\* as they are; unless a thread hangs, submit_requests panics. The same for a
\* wait thread and check_txn_results.
C16_WorkerPanicAborts ==
    /\ [](SubmitPanicked =>
            /\ pc \in {"join_submit", "panicked"}
            /\ pc = "panicked" =>
                   /\ panic_site = "join_submit"
                   /\ submitted = [NoSubmitted EXCEPT !.panicked = TRUE]
            /\ wait_children = <<>>
            /\ synced = NoSynced
            /\ ~CheckRan
            /\ summary = NoSummary)
    /\ [](WaitPanicked =>
            /\ pc \in {"join_wait", "panicked"}
            /\ pc = "panicked" =>
                   /\ panic_site = "join_wait"
                   /\ synced = [NoSynced EXCEPT !.panicked = TRUE]
            /\ ~CheckRan
            /\ checked = NoChecked
            /\ summary = NoSummary)
    /\ [][(SubmitPanicked \/ WaitPanicked) =>
            /\ prev_sequence_numbers' = prev_sequence_numbers
            /\ sequence_number' = sequence_number
            /\ op_counter' = op_counter]_vars
    /\ SubmitPanicked ~> (pc = "panicked" \/ SubmitHung)
    /\ WaitPanicked ~> (pc = "panicked" \/ WaitHung)

\* The first submit thread returned an accepted request and was joined,
\* the second panicked: submit_requests has panicked without a result.
C16_Witness ==
    /\ panic_site = "join_submit"
    /\ submit_children[1].state = "done"
    /\ submit_children[1].accepted = 1
    /\ submit_children[2].state = "panicked"
    /\ submitted.accepted = 0
    /\ DOMAIN prev_sequence_numbers = Addr

\* The smallest delay the submit threads returned.
MinDelay ==
    CHOOSE d \in {submit_children[i].delay : i \in DOMAIN submit_children} :
        \A i \in DOMAIN submit_children : submit_children[i].delay >= d

\* C17: every submit thread's delay is in [0, max(1, stagger_range_ms));
\* the duration submit_requests reports is the raw elapsed time minus the
\* smallest delay of its threads, and is not negative.
C17_DurationMinusMinDelay ==
    /\ [](\A i \in DOMAIN submit_children :
              submit_children[i].state = "done" =>
                  /\ submit_children[i].delay >= 0
                  /\ submit_children[i].delay < Max(1, stagger_range_ms))
    /\ [][(pc = "join_submit" /\ pc' = "submitted") =>
              /\ submitted'.raw >= MaxDelay(submit_children, Len(submit_children))
              /\ submitted'.duration = submitted'.raw - MinDelay
              /\ submitted'.duration >= 0]_vars

\* Two threads delayed by 1 and 2 ms, raw elapsed time 3 ms: the duration
\* reported is 2 ms.
C17_Witness ==
    /\ pc = "submitted"
    /\ stagger_range_ms = 3
    /\ submitted.delay = 1
    /\ submitted.raw = 3
    /\ submitted.duration = 2

RECURSIVE AcceptedSum(_, _)
\* The accepted responses of the submit threads 1..i together.
AcceptedSum(children, i) ==
    IF i = 0 THEN 0 ELSE children[i].accepted + AcceptedSum(children, i - 1)

\* C18: submit_requests gives each client one chunk of the requests; the
\* chunks in order make up the request list, so that every request is in
\* exactly one chunk, and their sizes differ by at most one; chunk i goes
\* to client i modulo the number of clients; the accepted count returned is
\* the sum of the accepted responses of all chunks.
C18_DispatchPartition ==
    /\ [](pc = "join_submit" =>
              /\ Len(submit_children) = NumClients
              /\ Flatten([i \in DOMAIN submit_children |-> submit_children[i].chunk], 1)
                     = requests
              /\ \A i, j \in DOMAIN submit_children :
                     Len(submit_children[i].chunk) - Len(submit_children[j].chunk) <= 1
              /\ \A i \in DOMAIN submit_children :
                     submit_children[i].client = ((i - 1) % NumClients) + 1)
    /\ [][(pc = "join_submit" /\ pc' = "submitted") =>
              submitted'.accepted = AcceptedSum(submit_children, Len(submit_children))]_vars

\* Two requests went to two clients, one each, and both were accepted.
C18_Witness ==
    /\ pc = "submitted"
    /\ Len(requests) = 2
    /\ submitted.accepted = 2
    /\ submitted.joined = NumClients

\* The round mint_accounts calls is running.
InMintRound ==
    /\ api = "mint"
    /\ pc \in {"join_submit", "submitted", "join_wait", "check", "checked"}

\* C19: while the round of mint_accounts runs the stagger range is 1, every
\* submit thread's delay is 0 and every submit thread has the unbounded
\* rate, whatever the configured rate; when mint_accounts returns the
\* stagger range and the submit rate are what they were before the call.
C19_MintStaggerAndRate ==
    /\ [](InMintRound =>
              /\ stagger_range_ms = 1
              /\ pc = "join_submit" => rate = RateMax /\ rate # submit_rate
              /\ \A i \in DOMAIN submit_children :
                     /\ submit_children[i].stagger = 1
                     /\ submit_children[i].rate = RateMax
                     /\ submit_children[i].state = "done" =>
                            submit_children[i].delay = 0)
    /\ [][(pc = "idle" /\ api' = "mint") =>
              saved_stagger' = stagger_range_ms]_vars
    /\ [][api' = "mint" =>
              /\ submit_rate' = submit_rate
              /\ pc # "idle" => saved_stagger' = saved_stagger]_vars
    /\ []((api = "mint" /\ pc = "returned") =>
              stagger_range_ms = saved_stagger)

\* mint_accounts has returned from minting two requests on a Benchmarker
\* configured with a stagger range of 3 ms.
C19_Witness ==
    /\ api = "mint"
    /\ pc = "returned"
    /\ Len(requests) = 2
    /\ summary.num_committed = 2
    /\ stagger_range_ms = 3

\* The round has ended: it returned its summary or it panicked.
RoundEnded == pc \in {"returned", "panicked"}

\* Every thread spawned before thread i of the children has returned.
AllDoneBefore(children, i) == \A j \in 1..(i - 1) : children[j].state = "done"

\* C20 as stated: a round ends only if every thread of its submit phase and
\* of its wait phase ends, so a round with a thread that hangs never ends.
C20_HungWorkerHangsRound == (SubmitHung \/ WaitHung) => ~RoundEnded

\* C20 as amended: if every thread returns or panics, the round returns its
\* summary or panics. A thread that hangs stays hung and is never joined,
\* and the round never returns a summary: it is blocked in the join for
\* good when the threads spawned before the hung one have returned, and it
\* can end only by the panic of the join of a thread spawned before the
\* hung one.
C20_RoundEndsIffJoinsEnd ==
    /\ (pc = "join_submit") ~> (RoundEnded \/ SubmitHung \/ WaitHung)
    /\ [][/\ \A i \in DOMAIN submit_children :
                 submit_children[i].state = "hung" =>
                     /\ i \in DOMAIN submit_children'
                     /\ submit_children'[i].state = "hung"
          /\ \A i \in DOMAIN wait_children :
                 wait_children[i].state = "hung" =>
                     /\ i \in DOMAIN wait_children'
                     /\ wait_children'[i].state = "hung"]_vars
    /\ [](\A i \in DOMAIN submit_children :
              submit_children[i].state = "hung" =>
                  /\ submitted.joined < i
                  /\ pc \in {"join_submit", "panicked"}
                  /\ summary = NoSummary
                  /\ AllDoneBefore(submit_children, i) => pc = "join_submit"
                  /\ pc = "panicked" =>
                         /\ panic_site = "join_submit"
                         /\ \E j \in 1..(i - 1) : submit_children[j].state = "panicked")
    /\ [](\A i \in DOMAIN wait_children :
              wait_children[i].state = "hung" =>
                  /\ synced.joined < i
                  /\ pc \in {"join_wait", "panicked"}
                  /\ summary = NoSummary
                  /\ AllDoneBefore(wait_children, i) => pc = "join_wait"
                  /\ pc = "panicked" =>
                         /\ panic_site = "join_wait"
                         /\ \E j \in 1..(i - 1) : wait_children[j].state = "panicked")

\* The first submit thread has returned and is joined, the second hangs:
\* submit_requests is blocked in the second join.
C20_Witness ==
    /\ pc = "join_submit"
    /\ Len(submit_children) = 2
    /\ submit_children[1].state = "done"
    /\ submitted.joined = 1
    /\ submit_children[2].state = "hung"

\* The sum over the senders of f[a] - g[a], in the integers.
TrueSum(f, g) ==
    SumOver([a \in Range(senders) |-> f[a] - g[a]], Range(senders))

\* C21: a check_txn_results that returns, returns the true sums over the
\* senders of (synced - prior) and of (local - synced): when a sum does not
\* fit the width it is accumulated in, or the width of the result, the call
\* panics.
C21_NoSilentWrap ==
    [][(pc = "check" /\ pc' = "checked") =>
          /\ checked'.committed = TrueSum(synced.map, prev_sequence_numbers)
          /\ checked'.uncommitted = TrueSum(sequence_number, synced.map)]_vars

\* The sequence number account a was registered with: what
\* load_faucet_account was answered for the faucet account, the sequence
\* number a generated account is created with for the others.
RegisteredAt(a) ==
    IF a = FaucetAddr THEN LastQuery.states.sequence_number ELSE 0

\* The sum over the accounts of S of f[a] - g[a].
Increase(f, g, S) == SumOver([a \in S |-> f[a] - g[a]], S)

\* C22: with the accounts registered before the first round and not after,
\* after any number of completed rounds the committed_txns counter is the
\* sum over the table of (entry - sequence number at registration), and the
\* committed count of each round is the sum over its senders of the increase
\* of their entries in that round.
C22_CounterMatchesTable ==
    /\ [](pc # "panicked" =>
              op_counter.committed_txns =
                  Increase(prev_sequence_numbers,
                           [a \in DOMAIN prev_sequence_numbers |-> RegisteredAt(a)],
                           DOMAIN prev_sequence_numbers))
    /\ [][(pc = "idle" /\ pc' = "idle" /\ ~RoundsBegun) =>
              \A a \in DOMAIN prev_sequence_numbers' :
                  prev_sequence_numbers'[a] = RegisteredAt(a)']_vars
    /\ [][(pc = "check" /\ pc' = "checked") =>
              /\ checked'.committed =
                     Increase(prev_sequence_numbers', prev_sequence_numbers,
                              Range(senders))
              /\ op_counter'.committed_txns =
                     op_counter.committed_txns + checked'.committed
              /\ \A a \in DOMAIN prev_sequence_numbers \ Range(senders) :
                     prev_sequence_numbers'[a] = prev_sequence_numbers[a]]_vars
    /\ [](pc = "returned" => summary.num_committed = checked.committed)

\* The faucet account was loaded at sequence number 1; in a first round a
\* request of account 1 was committed, in a second round one more of
\* account 1 and one of the faucet account.
C22_Witness ==
    /\ pc = "returned"
    /\ RoundsBegun
    /\ DOMAIN prev_sequence_numbers = {FaucetAddr, 1}
    /\ RegisteredAt(FaucetAddr) = 1
    /\ prev_sequence_numbers[FaucetAddr] = 2
    /\ prev_sequence_numbers[1] = 2
    /\ checked.committed = 2
    /\ op_counter.committed_txns = 3

====
